---- MODULE Spec2Model ----
(***************************************************************************)
(* Jupiter Perpetuals open & close example                                 *)
(* (src/experiment/jupiter/open-close-position.ts).                        *)
(*                                                                         *)
(* The script is sequential: every `await` of a remote call is one step of *)
(* the model, the synchronous code between two awaits is split into the    *)
(* derivation step and the instruction-building step.  The remote ledger   *)
(* (RPC node, on-chain programs, keeper) is the environment: its answers   *)
(* are nondeterministic, and it executes submitted transactions and        *)
(* pending requests asynchronously.  Validation done by the on-chain       *)
(* programs is opaque to the script; the ledger model keeps only the       *)
(* life cycle of the accounts the instructions open and close.             *)
(*                                                                         *)
(* Two specifications share the steps of the two flows:                    *)
(*   Spec     the script as run: the demo opens one position, closes it;   *)
(*   SpecApi  a caller of the two exported functions with any inputs.      *)
(***************************************************************************)
EXTENDS Integers, Sequences, FiniteSets, TLC

\* ------------------------------------------------------------------ bounds
MaxCalls == 1        \* SpecApi: calls of the exported functions per run
MaxUnits == 2        \* unit counts a simulation may report: 1..MaxUnits

\* ------------------------------------------------- keys, mints, constants
\* Public keys are tagged tuples; a derived address is the tuple of its
\* seeds, so two derivations agree exactly when their seeds agree.
loadKeypair == <<"wallet">>
JUPITER_PERPETUALS_PROGRAM_ID == <<"program", "perpetuals">>
JLP_POOL_ACCOUNT_PUBKEY == <<"pool", "JLP">>
COLLATERAL_USDC_CUSTODY == <<"custody", "USDC">>
CUSTODY == <<"custody", "BTC">>
mintUSDC == <<"mint", "USDC">>
keypair == loadKeypair
perpetuals == <<"pda", JUPITER_PERPETUALS_PROGRAM_ID, "perpetuals">>

CU_FALLBACK == 1400000
CLOSE_CU_LIMIT == 1200000
CU_PRICE == 100000
\* new BN(10_000_000_000), held as 10000 * 10^6: the value exceeds 32 bits.
CLOSE_PRICE_SLIPPAGE_E6 == 10000
DEMO_SIZE_USD == 5
DEMO_COLLATERAL == 100000000

Sides == {"long", "short"}
NoKey == <<"none">>

\* -------------------------------------------------------- address deriver
getAssociatedTokenAddressSync(mint, owner) == <<"ata", owner, mint>>

fundingAccount == getAssociatedTokenAddressSync(mintUSDC, keypair)

\* generatePositionPda: a pure function over its seeds.
generatePositionPda(args) ==
    [position |-> <<"position", args.walletAddress, JLP_POOL_ACCOUNT_PUBKEY,
                    args.custody, args.collateralCustody, args.side>>]

\* The address of a position request, keyed on (position, counter, kind).
PositionRequestAddress(positionPubkey, ctr, requestChange) ==
    <<"position_request", positionPubkey, ctr, requestChange>>

\* The request counter handed out after `ctr`.
NextCounterStuck(ctr) == ctr
NextCounter(ctr) == ctr + 1

\* generatePositionRequestPda: the next request address and its counter;
\* `ctr` is the counter handed out by the call before.
generatePositionRequestPda(args, ctr) ==
    [positionRequest |-> PositionRequestAddress(args.positionPubkey,
                                                NextCounter(ctr),
                                                args.requestChange),
     counter |-> NextCounter(ctr)]

\* ------------------------------------------------------ call-site inputs
\* openPerpPosition: the seeds of the position address.
OpenPositionArgs(side) ==
    [custody |-> CUSTODY, collateralCustody |-> COLLATERAL_USDC_CUSTODY,
     walletAddress |-> keypair, side |-> side]

\* demo: the seeds of the position address handed to closePerpPosition.
DemoPositionArgsShort ==
    [custody |-> CUSTODY, collateralCustody |-> COLLATERAL_USDC_CUSTODY,
     walletAddress |-> loadKeypair, side |-> "short"]
DemoPositionArgs ==
    [custody |-> CUSTODY, collateralCustody |-> COLLATERAL_USDC_CUSTODY,
     walletAddress |-> loadKeypair, side |-> "long"]

\* demo: the parameters of its openPerpPosition call
\* (maxPriceSlippagePct takes its default).
DemoOpenParams ==
    [side |-> "long", sizeUsd |-> DEMO_SIZE_USD,
     collateralSol |-> DEMO_COLLATERAL, maxPriceSlippagePct |-> 1]

OpenRequestArgs(positionPda) ==
    [positionPubkey |-> positionPda, requestChange |-> "increase"]

CloseRequestArgsIncrease(positionPda) ==
    [positionPubkey |-> positionPda, requestChange |-> "increase"]
CloseRequestArgs(positionPda) ==
    [positionPubkey |-> positionPda, requestChange |-> "decrease"]

\* ----------------------------------------------------------- instructions
setComputeUnitLimit(units) ==
    [program |-> "ComputeBudget", name |-> "setComputeUnitLimit",
     units |-> units]

setComputeUnitPrice(microLamports) ==
    [program |-> "ComputeBudget", name |-> "setComputeUnitPrice",
     microLamports |-> microLamports]

createAssociatedTokenAccountInstruction(payer, associatedToken, owner, mint) ==
    [program |-> "AssociatedToken", name |-> "create",
     payer |-> payer, associatedToken |-> associatedToken,
     owner |-> owner, mint |-> mint]
createAssociatedTokenAccountIdempotentInstruction(payer, associatedToken, owner, mint) ==
    [program |-> "AssociatedToken", name |-> "createIdempotent",
     payer |-> payer, associatedToken |-> associatedToken,
     owner |-> owner, mint |-> mint]

SystemProgramTransfer(fromPubkey, toPubkey, lamports) ==
    [program |-> "System", name |-> "transfer",
     fromPubkey |-> fromPubkey, toPubkey |-> toPubkey, lamports |-> lamports]

createSyncNativeInstruction(account) ==
    [program |-> "Token", name |-> "syncNative", account |-> account]

createCloseAccountInstruction(account, destination, authority) ==
    [program |-> "Token", name |-> "closeAccount", account |-> account,
     destination |-> destination, authority |-> authority]

\* new BN(sizeUsd * 1e6): USDC has 6 decimals.
SizeUsdDelta(sizeUsd) == sizeUsd * 1000000

\* new BN((maxPriceSlippagePct / 100) * 1e6 * 1)
OpenPriceSlippage(maxPriceSlippagePct) == (maxPriceSlippagePct * 1000000) \div 100

\* openPerpPosition: preIxs.
OpenPreIxsCreateNotIdempotent(owner, positionRequest, collateralDelta) ==
    << createAssociatedTokenAccountInstruction(
           owner, fundingAccount, positionRequest, mintUSDC),
       SystemProgramTransfer(owner, fundingAccount, collateralDelta),
       createSyncNativeInstruction(fundingAccount) >>
OpenPreIxs(owner, positionRequest, collateralDelta) ==
    << createAssociatedTokenAccountIdempotentInstruction(
           owner, fundingAccount, positionRequest, mintUSDC),
       SystemProgramTransfer(owner, fundingAccount, collateralDelta),
       createSyncNativeInstruction(fundingAccount) >>

\* openPerpPosition: increaseIx.
OpenIncreaseIx(params, owner, positionPda, positionRequest, positionRequestAta, ctr) ==
    [program |-> "Perpetuals", name |-> "createIncreasePositionMarketRequest",
     args |-> [counter |-> ctr,
               collateralTokenDelta |-> params.collateralSol,
               jupiterMinimumOut |-> "null",
               priceSlippage |-> OpenPriceSlippage(params.maxPriceSlippagePct),
               side |-> params.side,
               sizeUsdDelta |-> SizeUsdDelta(params.sizeUsd)],
     accounts |-> [owner |-> owner,
                   pool |-> JLP_POOL_ACCOUNT_PUBKEY,
                   position |-> positionPda,
                   positionRequest |-> positionRequest,
                   positionRequestAta |-> positionRequestAta,
                   custody |-> CUSTODY,
                   collateralCustody |-> COLLATERAL_USDC_CUSTODY,
                   fundingAccount |-> fundingAccount,
                   inputMint |-> mintUSDC,
                   perpetuals |-> perpetuals,
                   referral |-> "null"]]

\* openPerpPosition: the instructions of the simulated message.
OpenSimIxs(preIxs, increaseIx) == preIxs \o <<increaseIx>>

\* const cuLimit = sim.value.unitsConsumed ?? 1_400_000
CuLimitFromSim(sim) ==
    IF sim.hasUnits THEN sim.unitsConsumed ELSE CU_FALLBACK

\* openPerpPosition: the instructions of the final message.
OpenFinalIxsCleanupFirst(cuLimit, owner, preIxs, increaseIx) ==
    << setComputeUnitLimit(cuLimit), setComputeUnitPrice(CU_PRICE),
       createCloseAccountInstruction(fundingAccount, owner, owner) >>
    \o preIxs \o <<increaseIx>>
OpenFinalIxs(cuLimit, owner, preIxs, increaseIx) ==
    << setComputeUnitLimit(cuLimit), setComputeUnitPrice(CU_PRICE) >>
    \o preIxs
    \o << increaseIx,
          createCloseAccountInstruction(fundingAccount, owner, owner) >>

\* closePerpPosition: decIx.
CloseDecreaseIx(positionPda, positionRequest, positionRequestAta, ctr) ==
    [program |-> "Perpetuals", name |-> "createDecreasePositionMarketRequest",
     args |-> [collateralUsdDelta |-> 0,
               sizeUsdDelta |-> 0,
               priceSlippage |-> <<CLOSE_PRICE_SLIPPAGE_E6, "e6">>,
               jupiterMinimumOut |-> "null",
               counter |-> ctr,
               entirePosition |-> TRUE],
     accounts |-> [owner |-> keypair,
                   pool |-> JLP_POOL_ACCOUNT_PUBKEY,
                   position |-> positionPda,
                   positionRequest |-> positionRequest,
                   positionRequestAta |-> positionRequestAta,
                   custody |-> CUSTODY,
                   collateralCustody |-> COLLATERAL_USDC_CUSTODY,
                   desiredMint |-> mintUSDC,
                   receivingAccount |-> fundingAccount,
                   perpetuals |-> perpetuals,
                   referral |-> "null"]]

\* closePerpPosition: the instructions of its message.
CloseFinalIxs(decIx) ==
    << setComputeUnitLimit(CLOSE_CU_LIMIT), setComputeUnitPrice(CU_PRICE),
       decIx >>

\* if (!position || position.sizeUsd.isZero())
IsEmptyPositionNever(position) == FALSE
IsEmptyPositionMissingOnly(position) == ~position.found
IsEmptyPosition(position) == (~position.found) \/ position.sizeUsd = 0

\* ---------------------------------------------------------------- state
VARIABLES
    pc,              \* where the script stands
    callNo,          \* calls of openPerpPosition / closePerpPosition so far
    params,          \* parameters of the running openPerpPosition call
    closeArg,        \* positionPda handed to the running closePerpPosition call
    frame,           \* local constants of the running call
    requestCounter,  \* the request counter last handed out by the deriver
    pdaLog,          \* every generatePositionPda call: seeds and result
    requestLog,      \* every generatePositionRequestPda call: seeds and result
    trace,           \* every step taken: call, flow, step, outcome
    simulated,       \* messages sent to simulateTransaction
    submitted,       \* transactions accepted by sendTransaction
    chainPosition,   \* ledger: the position accounts
    tokenAccounts,   \* ledger: token accounts that are open
    pendingRequests, \* ledger: position requests waiting for the keeper
    landed,          \* ledger: indices of `submitted` already processed
    ledgerLog        \* ledger: outcome of each processed transaction

scriptVars == <<pc, callNo, params, closeArg, frame, requestCounter, pdaLog,
                requestLog, trace, simulated, submitted>>
ledgerVars == <<chainPosition, tokenAccounts, pendingRequests, landed, ledgerLog>>
vars == <<pc, callNo, params, closeArg, frame, requestCounter, pdaLog,
          requestLog, trace, simulated, submitted,
          chainPosition, tokenAccounts, pendingRequests, landed, ledgerLog>>

PositionAddrs == {generatePositionPda(OpenPositionArgs(s)).position : s \in Sides}

\* What the ledger may hold at a position address before the run: no
\* account, a position of size zero, a position of non-zero size.
ChainPositionStates ==
    {[exists |-> FALSE, sizeUsd |-> 0]}
    \cup {[exists |-> TRUE, sizeUsd |-> SizeUsdDelta(n)] : n \in {0, DEMO_SIZE_USD}}

\* What simulateTransaction may answer: an execution error or none, and a
\* unit count or none; the two fields are independent in the response.
SimResponses ==
    {[err |-> e, hasUnits |-> FALSE, unitsConsumed |-> 0] : e \in BOOLEAN}
    \cup {[err |-> e, hasUnits |-> TRUE, unitsConsumed |-> u] :
              e \in BOOLEAN, u \in 1..MaxUnits}

NoSim == [err |-> FALSE, hasUnits |-> FALSE, unitsConsumed |-> 0]
NoPosition == [found |-> FALSE, sizeUsd |-> 0]

EmptyFrame ==
    [positionPda |-> NoKey, positionRequest |-> NoKey, counter |-> 0,
     positionRequestAta |-> NoKey, preIxs |-> <<>>, progIx |-> <<>>,
     recentBlockhash |-> 0, sim |-> NoSim, cuLimit |-> 0,
     position |-> NoPosition]

NoParams == [side |-> "long", sizeUsd |-> 0, collateralSol |-> 0,
             maxPriceSlippagePct |-> 1]

Flow ==
    IF pc \in {"open_derive", "open_build", "open_blockhash", "open_simulate",
               "open_send"} THEN "open"
    ELSE IF pc \in {"close_fetch", "close_check", "close_derive", "close_build",
                    "close_blockhash", "close_send"} THEN "close"
    ELSE "none"

Step(name, ok) == [call |-> callNo, flow |-> Flow, step |-> name, ok |-> ok]

\* openPerpPosition runs its steps in program order.
OpenNextPcNoSimulation(at) ==
    CASE at = "open_derive" -> "open_build"
      [] at = "open_build" -> "open_blockhash"
      [] at = "open_blockhash" -> "open_send"
      [] at = "open_simulate" -> "open_send"
      [] at = "open_send" -> "open_return"
OpenNextPc(at) ==
    CASE at = "open_derive" -> "open_build"
      [] at = "open_build" -> "open_blockhash"
      [] at = "open_blockhash" -> "open_simulate"
      [] at = "open_simulate" -> "open_send"
      [] at = "open_send" -> "open_return"

\* closePerpPosition runs its steps in program order; `empty` is the
\* outcome of its guard.
CloseNextPc(at, empty) ==
    CASE at = "close_fetch" -> "close_check"
      [] at = "close_check" -> IF empty THEN "close_return" ELSE "close_derive"
      [] at = "close_derive" -> "close_build"
      [] at = "close_build" -> "close_blockhash"
      [] at = "close_blockhash" -> "close_send"
      [] at = "close_send" -> "close_return"

\* A rejected promise is caught nowhere: it leaves the async function and
\* the demo's async IIFE, and the run is over.
OnRejectRetry(at) == at
OnReject(at) == "failed"

\* The blockhash the node hands out: the ledger's latest block, one block
\* per transaction it has processed.
LatestBlockhash == Cardinality(landed) + 1

InitCommon ==
    /\ callNo = 0
    /\ params = NoParams
    /\ closeArg = NoKey
    /\ frame = EmptyFrame
    /\ requestCounter = 0
    /\ pdaLog = <<>>
    /\ requestLog = <<>>
    /\ trace = <<>>
    /\ simulated = <<>>
    /\ submitted = <<>>
    /\ chainPosition \in [PositionAddrs -> ChainPositionStates]
    /\ tokenAccounts \in {{}, {fundingAccount}}
    /\ pendingRequests = {}
    /\ landed = {}
    /\ ledgerLog = <<>>

Init == pc = "start" /\ InitCommon

InitApi == pc = "idle" /\ InitCommon

\* ------------------------------------------------------- openPerpPosition
\* derive PDAs: position, position request and counter, request ATA.
OpenDerive ==
    /\ pc = "open_derive"
    /\ LET pda == generatePositionPda(OpenPositionArgs(params.side))
           req == generatePositionRequestPda(OpenRequestArgs(pda.position),
                                             requestCounter)
       IN /\ frame' = [frame EXCEPT
                 !.positionPda = pda.position,
                 !.positionRequest = req.positionRequest,
                 !.counter = req.counter,
                 !.positionRequestAta =
                     getAssociatedTokenAddressSync(mintUSDC, req.positionRequest)]
          /\ requestCounter' = req.counter
          /\ pdaLog' = Append(pdaLog,
                 [args |-> OpenPositionArgs(params.side), position |-> pda.position])
          /\ requestLog' = Append(requestLog,
                 [call |-> callNo, args |-> OpenRequestArgs(pda.position),
                  positionRequest |-> req.positionRequest, counter |-> req.counter])
    /\ trace' = Append(trace, Step("derive", TRUE))
    /\ pc' = OpenNextPc(pc)
    /\ UNCHANGED <<callNo, params, closeArg, simulated, submitted>>
    /\ UNCHANGED ledgerVars

\* Build instruction list: preIxs and increaseIx.
OpenBuild ==
    /\ pc = "open_build"
    /\ frame' = [frame EXCEPT
           !.preIxs = OpenPreIxs(keypair, frame.positionRequest, params.collateralSol),
           !.progIx = <<OpenIncreaseIx(params, keypair, frame.positionPda,
                                       frame.positionRequest,
                                       frame.positionRequestAta, frame.counter)>>]
    /\ trace' = Append(trace, Step("build", TRUE))
    /\ pc' = OpenNextPc(pc)
    /\ UNCHANGED <<callNo, params, closeArg, requestCounter, pdaLog, requestLog,
                   simulated, submitted>>
    /\ UNCHANGED ledgerVars

\* await connection.getLatestBlockhash()
OpenGetBlockhash ==
    /\ pc = "open_blockhash"
    /\ \/ /\ frame' = [frame EXCEPT !.recentBlockhash = LatestBlockhash]
          /\ trace' = Append(trace, Step("getLatestBlockhash", TRUE))
          /\ pc' = OpenNextPc(pc)
       \/ /\ trace' = Append(trace, Step("getLatestBlockhash", FALSE))
          /\ pc' = OnReject(pc)
          /\ UNCHANGED frame
    /\ UNCHANGED <<callNo, params, closeArg, requestCounter, pdaLog, requestLog,
                   simulated, submitted>>
    /\ UNCHANGED ledgerVars

\* await connection.simulateTransaction(simTx, ...), then the estimate.
OpenSimulate ==
    /\ pc = "open_simulate"
    /\ LET simMessage == [payerKey |-> keypair,
                          recentBlockhash |-> frame.recentBlockhash,
                          instructions |-> OpenSimIxs(frame.preIxs, frame.progIx[1])]
       IN \/ \E sim \in SimResponses :
               /\ frame' = [frame EXCEPT !.sim = sim,
                                         !.cuLimit = CuLimitFromSim(sim)]
               /\ simulated' = Append(simulated,
                      [call |-> callNo, message |-> simMessage,
                       answered |-> TRUE, response |-> sim])
               /\ trace' = trace \o << Step("simulateTransaction", TRUE),
                                       Step("estimate", TRUE) >>
               /\ pc' = OpenNextPc(pc)
          \/ /\ simulated' = Append(simulated,
                    [call |-> callNo, message |-> simMessage,
                     answered |-> FALSE, response |-> NoSim])
             /\ trace' = Append(trace, Step("simulateTransaction", FALSE))
             /\ pc' = OnReject(pc)
             /\ UNCHANGED frame
    /\ UNCHANGED <<callNo, params, closeArg, requestCounter, pdaLog, requestLog,
                   submitted>>
    /\ UNCHANGED ledgerVars

\* final tx, tx.sign([keypair]), await connection.sendTransaction(tx, ...)
OpenSend ==
    /\ pc = "open_send"
    /\ \/ /\ submitted' = Append(submitted,
                 [call |-> callNo, flow |-> "open", payerKey |-> keypair,
                  recentBlockhash |-> frame.recentBlockhash,
                  signers |-> {keypair},
                  instructions |-> OpenFinalIxs(frame.cuLimit, keypair,
                                                frame.preIxs, frame.progIx[1])])
          /\ trace' = trace \o << Step("sendTransaction", TRUE),
                                  Step("return", TRUE) >>
          /\ pc' = OpenNextPc(pc)
       \/ /\ trace' = Append(trace, Step("sendTransaction", FALSE))
          /\ pc' = OnReject(pc)
          /\ UNCHANGED submitted
    /\ UNCHANGED <<callNo, params, closeArg, frame, requestCounter, pdaLog,
                   requestLog, simulated>>
    /\ UNCHANGED ledgerVars

\* ------------------------------------------------------ closePerpPosition
\* await PROGRAM.account.position.fetch(positionPda): the account as the
\* ledger holds it now, nothing when the ledger holds none, or a rejection.
CloseFetch ==
    /\ pc = "close_fetch"
    /\ \/ /\ frame' = [frame EXCEPT
                 !.positionPda = closeArg,
                 !.position = [found |-> chainPosition[closeArg].exists,
                               sizeUsd |-> chainPosition[closeArg].sizeUsd]]
          /\ trace' = Append(trace, Step("fetch", TRUE))
          /\ pc' = CloseNextPc(pc, FALSE)
       \/ /\ trace' = Append(trace, Step("fetch", FALSE))
          /\ pc' = OnReject(pc)
          /\ UNCHANGED frame
    /\ UNCHANGED <<callNo, params, closeArg, requestCounter, pdaLog, requestLog,
                   simulated, submitted>>
    /\ UNCHANGED ledgerVars

\* if (!position || position.sizeUsd.isZero()) { console.error(...); return; }
CloseCheck ==
    /\ pc = "close_check"
    /\ IF IsEmptyPosition(frame.position)
       THEN trace' = trace \o << Step("log_error", TRUE), Step("return", TRUE) >>
       ELSE trace' = trace
    /\ pc' = CloseNextPc(pc, IsEmptyPosition(frame.position))
    /\ UNCHANGED <<callNo, params, closeArg, frame, requestCounter, pdaLog,
                   requestLog, simulated, submitted>>
    /\ UNCHANGED ledgerVars

\* generatePositionRequestPda({ ..., requestChange: "decrease" }), request ATA.
CloseDerive ==
    /\ pc = "close_derive"
    /\ LET req == generatePositionRequestPda(CloseRequestArgs(frame.positionPda),
                                             requestCounter)
       IN /\ frame' = [frame EXCEPT
                 !.positionRequest = req.positionRequest,
                 !.counter = req.counter,
                 !.positionRequestAta =
                     getAssociatedTokenAddressSync(mintUSDC, req.positionRequest)]
          /\ requestCounter' = req.counter
          /\ requestLog' = Append(requestLog,
                 [call |-> callNo, args |-> CloseRequestArgs(frame.positionPda),
                  positionRequest |-> req.positionRequest, counter |-> req.counter])
    /\ trace' = Append(trace, Step("derive", TRUE))
    /\ pc' = CloseNextPc(pc, FALSE)
    /\ UNCHANGED <<callNo, params, closeArg, pdaLog, simulated, submitted>>
    /\ UNCHANGED ledgerVars

\* decIx
CloseBuild ==
    /\ pc = "close_build"
    /\ frame' = [frame EXCEPT
           !.progIx = <<CloseDecreaseIx(frame.positionPda, frame.positionRequest,
                                        frame.positionRequestAta, frame.counter)>>]
    /\ trace' = Append(trace, Step("build", TRUE))
    /\ pc' = CloseNextPc(pc, FALSE)
    /\ UNCHANGED <<callNo, params, closeArg, requestCounter, pdaLog, requestLog,
                   simulated, submitted>>
    /\ UNCHANGED ledgerVars

\* await connection.getLatestBlockhash()
CloseGetBlockhash ==
    /\ pc = "close_blockhash"
    /\ \/ /\ frame' = [frame EXCEPT !.recentBlockhash = LatestBlockhash]
          /\ trace' = Append(trace, Step("getLatestBlockhash", TRUE))
          /\ pc' = CloseNextPc(pc, FALSE)
       \/ /\ trace' = Append(trace, Step("getLatestBlockhash", FALSE))
          /\ pc' = OnReject(pc)
          /\ UNCHANGED frame
    /\ UNCHANGED <<callNo, params, closeArg, requestCounter, pdaLog, requestLog,
                   simulated, submitted>>
    /\ UNCHANGED ledgerVars

\* msg, tx.sign([keypair]), await connection.sendTransaction(tx, ...)
CloseSend ==
    /\ pc = "close_send"
    /\ \/ /\ submitted' = Append(submitted,
                 [call |-> callNo, flow |-> "close", payerKey |-> keypair,
                  recentBlockhash |-> frame.recentBlockhash,
                  signers |-> {keypair},
                  instructions |-> CloseFinalIxs(frame.progIx[1])])
          /\ trace' = trace \o << Step("sendTransaction", TRUE),
                                  Step("return", TRUE) >>
          /\ pc' = CloseNextPc(pc, FALSE)
       \/ /\ trace' = Append(trace, Step("sendTransaction", FALSE))
          /\ pc' = OnReject(pc)
          /\ UNCHANGED submitted
    /\ UNCHANGED <<callNo, params, closeArg, frame, requestCounter, pdaLog,
                   requestLog, simulated>>
    /\ UNCHANGED ledgerVars

\* ------------------------------------------------------------------- demo
\* await openPerpPosition({ side: "long", sizeUsd: 5, collateralSol: 0.1 * 1e9 })
DemoOpen ==
    /\ pc = "start"
    /\ callNo' = callNo + 1
    /\ params' = DemoOpenParams
    /\ frame' = EmptyFrame
    /\ pc' = "open_derive"
    /\ UNCHANGED <<closeArg, requestCounter, pdaLog, requestLog, trace,
                   simulated, submitted>>
    /\ UNCHANGED ledgerVars

\* generatePositionPda({...}) ; await closePerpPosition(positionPda)
DemoClose ==
    /\ pc = "open_return"
    /\ LET pda == generatePositionPda(DemoPositionArgs)
       IN /\ closeArg' = pda.position
          /\ pdaLog' = Append(pdaLog,
                 [args |-> DemoPositionArgs, position |-> pda.position])
    /\ callNo' = callNo + 1
    /\ frame' = EmptyFrame
    /\ pc' = "close_fetch"
    /\ UNCHANGED <<params, requestCounter, requestLog, trace, simulated, submitted>>
    /\ UNCHANGED ledgerVars

\* the async IIFE runs to its end
DemoExit ==
    /\ pc = "close_return"
    /\ pc' = "exit"
    /\ UNCHANGED <<callNo, params, closeArg, frame, requestCounter, pdaLog,
                   requestLog, trace, simulated, submitted>>
    /\ UNCHANGED ledgerVars

\* --------------------------------------- callers of the exported functions
ApiOpenParams ==
    {[side |-> sd, sizeUsd |-> DEMO_SIZE_USD, collateralSol |-> DEMO_COLLATERAL,
      maxPriceSlippagePct |-> 1] : sd \in Sides}

\* a caller awaits openPerpPosition(p)
ApiOpen ==
    /\ pc \in {"idle", "open_return", "close_return"}
    /\ callNo < MaxCalls
    /\ \E p \in ApiOpenParams : params' = p
    /\ callNo' = callNo + 1
    /\ frame' = EmptyFrame
    /\ pc' = "open_derive"
    /\ UNCHANGED <<closeArg, requestCounter, pdaLog, requestLog, trace,
                   simulated, submitted>>
    /\ UNCHANGED ledgerVars

\* a caller awaits closePerpPosition(positionPda)
ApiClose ==
    /\ pc \in {"idle", "open_return", "close_return"}
    /\ callNo < MaxCalls
    /\ \E a \in PositionAddrs : closeArg' = a
    /\ callNo' = callNo + 1
    /\ frame' = EmptyFrame
    /\ pc' = "close_fetch"
    /\ UNCHANGED <<params, requestCounter, pdaLog, requestLog, trace,
                   simulated, submitted>>
    /\ UNCHANGED ledgerVars

\* ----------------------------------------------------------------- ledger
\* The effect of one instruction on the accounts of the ledger.  `st` is
\* [ok, failedAt, at, tokenAccounts, requests]; a failed instruction
\* fails the transaction.
ApplyIx(ix, st) ==
    LET here == [st EXCEPT !.at = st.at + 1]
        fail == [here EXCEPT !.ok = FALSE, !.failedAt = st.at + 1]
    IN CASE ix.name = "createIdempotent" ->
                [here EXCEPT !.tokenAccounts = @ \cup {ix.associatedToken}]
         [] ix.name = "create" ->
                IF ix.associatedToken \in st.tokenAccounts
                THEN fail
                ELSE [here EXCEPT !.tokenAccounts = @ \cup {ix.associatedToken}]
         [] ix.name = "closeAccount" ->
                IF ix.account \in st.tokenAccounts
                THEN [here EXCEPT !.tokenAccounts = @ \ {ix.account}]
                ELSE fail
         [] ix.name = "createIncreasePositionMarketRequest" ->
                [here EXCEPT
                    !.tokenAccounts = @ \cup {ix.accounts.positionRequestAta},
                    !.requests = @ \cup
                        {[address |-> ix.accounts.positionRequest,
                          ata |-> ix.accounts.positionRequestAta,
                          position |-> ix.accounts.position,
                          requestChange |-> "increase",
                          sizeUsdDelta |-> ix.args.sizeUsdDelta,
                          entirePosition |-> FALSE]}]
         [] ix.name = "createDecreasePositionMarketRequest" ->
                [here EXCEPT
                    !.tokenAccounts = @ \cup {ix.accounts.positionRequestAta},
                    !.requests = @ \cup
                        {[address |-> ix.accounts.positionRequest,
                          ata |-> ix.accounts.positionRequestAta,
                          position |-> ix.accounts.position,
                          requestChange |-> "decrease",
                          sizeUsdDelta |-> ix.args.sizeUsdDelta,
                          entirePosition |-> ix.args.entirePosition]}]
         [] OTHER -> here

RECURSIVE ApplyIxs(_, _)
ApplyIxs(ixs, st) ==
    IF ixs = <<>> \/ ~st.ok THEN st
    ELSE ApplyIxs(Tail(ixs), ApplyIx(Head(ixs), st))

Unlanded == (1..Len(submitted)) \ landed

\* The ledger executes a submitted transaction: all of it or none of it.
LedgerExecute ==
    /\ \E i \in Unlanded :
          LET r == ApplyIxs(submitted[i].instructions,
                            [ok |-> TRUE, failedAt |-> 0, at |-> 0,
                             tokenAccounts |-> tokenAccounts,
                             requests |-> pendingRequests])
          IN /\ landed' = landed \cup {i}
             /\ tokenAccounts' = IF r.ok THEN r.tokenAccounts ELSE tokenAccounts
             /\ pendingRequests' = IF r.ok THEN r.requests ELSE pendingRequests
             /\ ledgerLog' = Append(ledgerLog,
                    [tx |-> i, ok |-> r.ok, failedAt |-> r.failedAt,
                     fundingOpenBefore |-> fundingAccount \in tokenAccounts])
    /\ UNCHANGED chainPosition
    /\ UNCHANGED scriptVars

\* The ledger refuses a submitted transaction (it expired, it ran out of
\* budget, a program rejected it): nothing of it takes effect.
LedgerRefuse ==
    /\ \E i \in Unlanded :
          /\ landed' = landed \cup {i}
          /\ ledgerLog' = Append(ledgerLog,
                 [tx |-> i, ok |-> FALSE, failedAt |-> 0,
                  fundingOpenBefore |-> fundingAccount \in tokenAccounts])
    /\ UNCHANGED <<chainPosition, tokenAccounts, pendingRequests>>
    /\ UNCHANGED scriptVars

\* The keeper executes a pending request and deletes it.
KeeperExecute ==
    /\ \E r \in pendingRequests :
          /\ r.position \in PositionAddrs
          /\ chainPosition' =
                [chainPosition EXCEPT ![r.position] =
                    IF r.requestChange = "increase"
                    THEN [exists |-> TRUE, sizeUsd |-> @.sizeUsd + r.sizeUsdDelta]
                    ELSE IF r.entirePosition
                         THEN [exists |-> @.exists, sizeUsd |-> 0]
                         ELSE @]
          /\ pendingRequests' = pendingRequests \ {r}
          /\ tokenAccounts' = tokenAccounts \ {r.ata}
    /\ UNCHANGED <<landed, ledgerLog>>
    /\ UNCHANGED scriptVars

\* The keeper rejects a pending request and deletes it.
KeeperReject ==
    /\ \E r \in pendingRequests :
          /\ pendingRequests' = pendingRequests \ {r}
          /\ tokenAccounts' = tokenAccounts \ {r.ata}
    /\ UNCHANGED <<chainPosition, landed, ledgerLog>>
    /\ UNCHANGED scriptVars

\* --------------------------------------------------------- specifications
OpenFlow == OpenDerive \/ OpenBuild \/ OpenGetBlockhash \/ OpenSimulate \/ OpenSend

CloseFlow ==
    CloseFetch \/ CloseCheck \/ CloseDerive \/ CloseBuild \/ CloseGetBlockhash
    \/ CloseSend

Ledger == LedgerExecute \/ LedgerRefuse \/ KeeperExecute \/ KeeperReject

Next == DemoOpen \/ DemoClose \/ DemoExit \/ OpenFlow \/ CloseFlow \/ Ledger

NextApi == ApiOpen \/ ApiClose \/ OpenFlow \/ CloseFlow \/ Ledger

Spec == Init /\ [][Next]_vars

SpecApi == InitApi /\ [][NextApi]_vars

\* ------------------------------------------------- vocabulary of the claims
IxNames(tx) == [i \in DOMAIN tx.instructions |-> tx.instructions[i].name]

PerpetualsIxs(tx) ==
    SelectSeq(tx.instructions, LAMBDA ix : ix.program = "Perpetuals")

ProgramIx(tx) == PerpetualsIxs(tx)[1]

OpenTxs == {i \in DOMAIN submitted : submitted[i].flow = "open"}

CloseTxs == {i \in DOMAIN submitted : submitted[i].flow = "close"}

SimulationsOf(c) == SelectSeq(simulated, LAMBDA e : e.call = c)

OpenInstructionOrder ==
    << "setComputeUnitLimit", "setComputeUnitPrice", "createIdempotent",
       "transfer", "syncNative", "createIncreasePositionMarketRequest",
       "closeAccount" >>

\* C2: every transaction openPerpPosition submits, whatever its input,
\* carries exactly these instructions in this order: compute-unit limit,
\* compute-unit price, idempotent create of the funding account, transfer
\* into it, native sync of it, one createIncreasePositionMarketRequest,
\* and last the close of the funding account.
C2_OpenInstructionOrder ==
    \A i \in OpenTxs :
       LET tx == submitted[i]
       IN /\ IxNames(tx) = OpenInstructionOrder
          /\ Len(PerpetualsIxs(tx)) = 1
          /\ tx.instructions[3].associatedToken = fundingAccount
          /\ tx.instructions[4].toPubkey = fundingAccount
          /\ tx.instructions[5].account = fundingAccount
          /\ tx.instructions[7].account = fundingAccount

\* An open request for the short side has been submitted.
C2_Witness ==
    \E i \in OpenTxs :
       /\ ProgramIx(submitted[i]).args.side = "short"
       /\ Len(submitted[i].instructions) = 7

\* ---------------------------------------------------------------------- C3
\* C3: the compute-unit limit of the open transaction is decided by exactly
\* one simulation call: the reported unit count when the simulation
\* succeeded, the ceiling 1,400,000 when it reported an execution error or
\* no unit count.
C3_LimitFromSuccessfulSimulation ==
    \A i \in OpenTxs :
       LET tx == submitted[i]
           sims == SimulationsOf(tx.call)
       IN /\ Len(sims) = 1
          /\ sims[1].answered
          /\ tx.instructions[1].name = "setComputeUnitLimit"
          /\ tx.instructions[1].units =
                IF (~sims[1].response.err) /\ sims[1].response.hasUnits
                THEN sims[1].response.unitsConsumed
                ELSE CU_FALLBACK

\* ---------------------------------------------------------------------- C4
StepsOf(c) == SelectSeq(trace, LAMBDA e : e.call = c)

StepNames(c) == [i \in DOMAIN StepsOf(c) |-> StepsOf(c)[i].step]

Times(c, name) == Cardinality({i \in DOMAIN StepsOf(c) : StepsOf(c)[i].step = name})

\* In call c a step named a comes before a step named b.
Before(c, a, b) ==
    \E i, j \in DOMAIN StepsOf(c) :
       /\ i < j
       /\ StepsOf(c)[i].step = a
       /\ StepsOf(c)[j].step = b

\* The steps of call c, the blockhash fetch left out.
FlowSteps(c) ==
    LET kept == SelectSeq(StepsOf(c), LAMBDA e : e.step # "getLatestBlockhash")
    IN [i \in DOMAIN kept |-> kept[i].step]

\* C4 as stated: every call that submitted a transaction, of either flow,
\* went derive, build, one simulation, estimate, one submission, each once
\* and in this order.
C4_SameStepOrderInBothFlows ==
    \A i \in DOMAIN submitted :
       LET c == submitted[i].call
       IN /\ \A name \in {"derive", "build", "simulateTransaction", "estimate",
                          "sendTransaction"} : Times(c, name) = 1
          /\ Before(c, "derive", "build")
          /\ Before(c, "build", "simulateTransaction")
          /\ Before(c, "simulateTransaction", "estimate")
          /\ Before(c, "estimate", "sendTransaction")

\* C4 as amended: an openPerpPosition call that submitted went derive,
\* build, exactly one simulation, estimate, one submission, each once and
\* in this order; a closePerpPosition call that submitted went fetch,
\* derive, build, one submission, each once and in this order, with no
\* simulation: no step is repeated in either flow.
C4_StepOrderPerFlow ==
    \A i \in DOMAIN submitted :
       LET c == submitted[i].call
       IN /\ submitted[i].flow = "open" =>
                /\ FlowSteps(c) = << "derive", "build", "simulateTransaction",
                                     "estimate", "sendTransaction", "return" >>
                /\ Len(SimulationsOf(c)) = 1
          /\ submitted[i].flow = "close" =>
                /\ FlowSteps(c) = << "fetch", "derive", "build",
                                     "sendTransaction", "return" >>
                /\ Len(SimulationsOf(c)) = 0
          /\ Times(c, "getLatestBlockhash") = 1
          /\ Cardinality({j \in DOMAIN submitted : submitted[j].call = c}) = 1

\* Both flows have run to their submission.
C4_Witness ==
    /\ OpenTxs # {}
    /\ CloseTxs # {}
    /\ pc = "exit"

\* ---------------------------------------------------------------------- C5
\* C5 as stated: a run of the script that reaches its end (no remote call
\* failed) has submitted exactly one open and then exactly one close
\* transaction, whatever the position fetched by the close flow was.
C5_OneOpenOneCloseAlways ==
    pc = "exit" =>
       /\ Len(submitted) = 2
       /\ submitted[1].flow = "open"
       /\ submitted[2].flow = "close"

\* C5 as amended: a run of the script that reaches its end has submitted
\* exactly one open transaction, and after it exactly one close
\* transaction when the position the close flow fetched exists with
\* non-zero size, and no close transaction when that position is missing
\* or has zero size.
C5_OneOpenCloseIfPositionOpen ==
    /\ Cardinality(OpenTxs) <= 1
    /\ Cardinality(CloseTxs) <= 1
    /\ \A i \in OpenTxs : \A j \in CloseTxs : i < j
    /\ pc = "exit" =>
          /\ Cardinality(OpenTxs) = 1
          /\ Cardinality(CloseTxs) =
                IF frame.position.found /\ frame.position.sizeUsd # 0
                THEN 1 ELSE 0

\* The run ended with the open and the close submitted.
C5_Witness ==
    /\ pc = "exit"
    /\ Len(submitted) = 2
    /\ frame.position.found
    /\ frame.position.sizeUsd # 0

\* ---------------------------------------------------------------------- C6
FailedSteps == {i \in DOMAIN trace : ~trace[i].ok}

RemoteCalls ==
    {"fetch", "getLatestBlockhash", "simulateTransaction", "sendTransaction"}

\* C6: a failed remote call is fatal and never retried: it is the last
\* step of the run (not issued again, no remote call and no submission
\* after it), the run is over, and when it failed in the open flow the
\* close flow was never started.
C6_RemoteFailureIsFatal ==
    /\ \A i \in FailedSteps :
          /\ trace[i].step \in RemoteCalls
          /\ i = Len(trace)
          /\ pc = "failed"
          /\ trace[i].call = callNo
          /\ trace[i].flow = "open" =>
                /\ callNo = 1
                /\ closeArg = NoKey
                /\ CloseTxs = {}
                /\ \A j \in DOMAIN trace : trace[j].flow = "open"
          /\ Cardinality({j \in DOMAIN trace :
                             trace[j].step = "sendTransaction" /\ trace[j].ok})
                = Len(submitted)
    /\ pc = "failed" => Cardinality(FailedSteps) = 1

\* The simulation of the open flow failed and the run is over.
C6_Witness ==
    /\ pc = "failed"
    /\ trace # <<>>
    /\ trace[Len(trace)].step = "simulateTransaction"
    /\ ~trace[Len(trace)].ok
    /\ trace[Len(trace)].flow = "open"

\* ---------------------------------------------------------------------- C7
\* The accounts an instruction names.
IxAccounts(ix) ==
    CASE ix.name \in {"create", "createIdempotent"} ->
            {ix.payer, ix.associatedToken, ix.owner, ix.mint}
      [] ix.name = "transfer" -> {ix.fromPubkey, ix.toPubkey}
      [] ix.name = "syncNative" -> {ix.account}
      [] ix.name = "closeAccount" -> {ix.account, ix.destination, ix.authority}
      [] ix.program = "Perpetuals" ->
            {ix.accounts[k] : k \in DOMAIN ix.accounts}
      [] OTHER -> {}

UsesOf(tx, account) ==
    {k \in DOMAIN tx.instructions : account \in IxAccounts(tx.instructions[k])}

\* C7: in every open transaction the idempotent create of the funding
\* account comes before every other instruction that names the funding
\* account (transfer, native sync, increase request) and its close comes
\* after all of them; and when the ledger executes an open transaction
\* while the funding account already exists, the create step does not
\* fail.
C7_FundingAccountOpenedUsedClosed ==
    /\ \A i \in OpenTxs :
          LET tx == submitted[i]
              uses == UsesOf(tx, fundingAccount)
              creates == {k \in uses : tx.instructions[k].name = "createIdempotent"}
              closes == {k \in uses : tx.instructions[k].name = "closeAccount"}
          IN /\ Cardinality(creates) = 1
             /\ Cardinality(closes) = 1
             /\ Cardinality(uses) = 5
             /\ \A c \in creates : tx.instructions[c].associatedToken = fundingAccount
             /\ \A c \in closes : tx.instructions[c].account = fundingAccount
             /\ \A c \in creates : \A k \in uses \ creates : c < k
             /\ \A c \in closes : \A k \in uses \ closes : k < c
    /\ \A e \in DOMAIN ledgerLog :
          LET tx == submitted[ledgerLog[e].tx]
          IN (tx.flow = "open" /\ ledgerLog[e].fundingOpenBefore) =>
                \/ ledgerLog[e].failedAt = 0
                \/ tx.instructions[ledgerLog[e].failedAt].name
                      \notin {"create", "createIdempotent"}

\* The ledger has executed an open transaction, all of it, at a time the
\* funding account already existed.
C7_Witness ==
    \E e \in DOMAIN ledgerLog :
       /\ submitted[ledgerLog[e].tx].flow = "open"
       /\ ledgerLog[e].fundingOpenBefore
       /\ ledgerLog[e].ok

RequestKind(tx) == IF tx.flow = "open" THEN "increase" ELSE "decrease"

\* C9: in every submitted transaction of either flow the positionRequest
\* account of the program call is the address derived from (the account
\* passed as position, the counter of the payload, the kind of the flow:
\* increase for open, decrease for close), that counter is the one the
\* deriver returned to this call, and positionRequestAta is the token
\* address derived from (USDC mint, that positionRequest).
C9_RequestSelfConsistent ==
    \A i \in DOMAIN submitted :
       LET tx == submitted[i]
           ix == ProgramIx(tx)
           derivations == SelectSeq(requestLog, LAMBDA e : e.call = tx.call)
       IN /\ Len(PerpetualsIxs(tx)) = 1
          /\ ix.name = IF tx.flow = "open"
                       THEN "createIncreasePositionMarketRequest"
                       ELSE "createDecreasePositionMarketRequest"
          /\ ix.accounts.positionRequest =
                PositionRequestAddress(ix.accounts.position, ix.args.counter,
                                       RequestKind(tx))
          /\ ix.accounts.positionRequestAta =
                getAssociatedTokenAddressSync(mintUSDC, ix.accounts.positionRequest)
          /\ Len(derivations) = 1
          /\ derivations[1].counter = ix.args.counter
          /\ derivations[1].positionRequest = ix.accounts.positionRequest
          /\ derivations[1].args.positionPubkey = ix.accounts.position
          /\ derivations[1].args.requestChange = RequestKind(tx)

\* A close request has been submitted.
C9_Witness ==
    \E i \in CloseTxs :
       ProgramIx(submitted[i]).name = "createDecreasePositionMarketRequest"

\* --------------------------------------------------------------------- C10
\* C10: closePerpPosition submits only when the position it fetched exists
\* with non-zero sizeUsd; when that position is missing or has zero size
\* the call logs an error and returns having done nothing else than the
\* fetch (no request derived, no blockhash fetched, nothing sent); a
\* submitted close asks to close the entire position (entirePosition true,
\* both deltas zero) under the compute-unit limit 1,200,000.
C10_CloseOnlyOpenPosition ==
    /\ \A i \in CloseTxs :
          LET tx == submitted[i]
          IN /\ IxNames(tx) = << "setComputeUnitLimit", "setComputeUnitPrice",
                                 "createDecreasePositionMarketRequest" >>
             /\ tx.instructions[1].units = 1200000
             /\ ProgramIx(tx).args.entirePosition = TRUE
             /\ ProgramIx(tx).args.sizeUsdDelta = 0
             /\ ProgramIx(tx).args.collateralUsdDelta = 0
             /\ "fetch" \in {StepNames(tx.call)[k] : k \in DOMAIN StepNames(tx.call)}
             /\ tx.call = callNo =>
                   (frame.position.found /\ frame.position.sizeUsd # 0)
    /\ pc \in {"close_derive", "close_build", "close_blockhash", "close_send"} =>
          (frame.position.found /\ frame.position.sizeUsd # 0)
    /\ (pc = "close_return"
          /\ ~(frame.position.found /\ frame.position.sizeUsd # 0)) =>
          /\ StepNames(callNo) = << "fetch", "log_error", "return" >>
          /\ \A k \in DOMAIN StepsOf(callNo) : StepsOf(callNo)[k].ok
          /\ \A k \in DOMAIN requestLog : requestLog[k].call # callNo
          /\ \A k \in DOMAIN submitted : submitted[k].call # callNo

\* A close call returned on a position that exists with size zero.
C10_Witness ==
    /\ pc = "close_return"
    /\ frame.position.found
    /\ frame.position.sizeUsd = 0
    /\ StepNames(callNo) = << "fetch", "log_error", "return" >>

\* --------------------------------------------------------------------- C11
BudgetIxNames == {"setComputeUnitLimit", "setComputeUnitPrice"}

\* The instructions of tx that set no compute budget.
NonBudgetIxs(tx) ==
    SelectSeq(tx.instructions, LAMBDA ix : ix.name \notin BudgetIxNames)

\* C11: the open transaction is sized from a measurement of itself: the
\* message that was simulated and the transaction that was submitted have
\* the same payer and the same recent blockhash, and the submitted
\* instructions are the two budget-setting instructions followed by
\* exactly the simulated instructions, so the simulation covered every
\* non-budget instruction that is submitted.
C11_SimulatedIsSubmitted ==
    \A i \in OpenTxs :
       LET tx == submitted[i]
           sims == SimulationsOf(tx.call)
       IN /\ Len(sims) = 1
          /\ sims[1].message.payerKey = tx.payerKey
          /\ sims[1].message.recentBlockhash = tx.recentBlockhash
          /\ tx.instructions[1].name = "setComputeUnitLimit"
          /\ tx.instructions[2].name = "setComputeUnitPrice"
          /\ NonBudgetIxs(tx) = sims[1].message.instructions
          /\ Len(tx.instructions) = 2 + Len(sims[1].message.instructions)

\* --------------------------------------------------------------------- C12
CreateIxs(tx) ==
    SelectSeq(tx.instructions,
              LAMBDA ix : ix.name \in {"create", "createIdempotent"})

\* C12: the funding account the open flow creates is the one it funds and
\* references: the create instruction names the owner and mint from which
\* the funding-account address was derived, the wallet's key and the USDC
\* mint, so its target is the associated-token address of the owner and
\* mint it names.
C12_CreateNamesFundingOwner ==
    \A i \in OpenTxs :
       LET creates == CreateIxs(submitted[i])
       IN /\ Len(creates) = 1
          /\ creates[1].associatedToken = fundingAccount
          /\ creates[1].mint = mintUSDC
          /\ creates[1].owner = keypair
          /\ creates[1].associatedToken =
                getAssociatedTokenAddressSync(creates[1].mint, creates[1].owner)

\* --------------------------------------------------------------------- C13
\* The ledger has executed, all of it, a transaction of the open flow.
OpenTxExecuted ==
    \E e \in DOMAIN ledgerLog :
       /\ ledgerLog[e].ok
       /\ submitted[ledgerLog[e].tx].flow = "open"

\* C13: no submitted instruction names a token account the script has
\* already closed: whenever the close flow stands at its submission after
\* the ledger has executed the open transaction, the receiving account
\* its request names (the funding account) is an open account.
C13_ReceivingAccountStillOpen ==
    (pc = "close_send" /\ OpenTxExecuted) =>
       /\ frame.progIx[1].accounts.receivingAccount = fundingAccount
       /\ frame.progIx[1].accounts.receivingAccount \in tokenAccounts

====
